---- MODULE Spec2Model ----
(***************************************************************************)
(* Model of the endian_codec crate: the primitive / array codec impls of   *)
(* src/src/lib.rs and the derive generators of                             *)
(* src/endian_serde_derive/src/lib.rs.  The derive crate names the traits  *)
(* EndianSize / LittleEndianSerialize / ...; the library names them        *)
(* PackedSize / EncodeLE / ...; they are the same traits.                  *)
(*                                                                         *)
(* Integers are wider than TLC's machine integers (up to 128 bits), so a   *)
(* value of an integer type is a sign and a magnitude in base 2^16 limbs,  *)
(* least significant limb first, without leading zero limbs.               *)
(***************************************************************************)
EXTENDS Integers, Sequences, FiniteSets, TLC

\* ------------------------------------------------------------------------
\* Bounds of the model
\* ------------------------------------------------------------------------
\* a caller's buffer is at most MaxSlack bytes shorter or longer than PACKED_LEN
MaxSlack == 1
\* a caller's fresh buffer is filled with one of NumFill byte values
NumFill == 2

\* ------------------------------------------------------------------------
\* Program constants
\* ------------------------------------------------------------------------
\* the largest N with impl_codec_for_array!([u8; N], N)
ArrayMax == 32

\* ------------------------------------------------------------------------
\* Sequence helpers
\* ------------------------------------------------------------------------
Reverse(s) == [i \in 1..Len(s) |-> s[Len(s) + 1 - i]]

Zeros(n) == [i \in 1..n |-> 0]

Fill(n, b) == [i \in 1..n |-> b]

RECURSIVE SumSeq(_)
SumSeq(s) == IF s = <<>> THEN 0 ELSE Head(s) + SumSeq(Tail(s))

\* ------------------------------------------------------------------------
\* Integer values
\* ------------------------------------------------------------------------
RECURSIVE Limbs(_)
\* the base-2^16 limbs of a little-endian byte string
Limbs(bs) ==
    IF Len(bs) = 0 THEN <<>>
    ELSE IF Len(bs) = 1 THEN <<bs[1]>>
    ELSE <<bs[1] + 256 * bs[2]>> \o Limbs(SubSeq(bs, 3, Len(bs)))

RECURSIVE Strip(_)
\* drop the most significant zero limbs
Strip(ls) ==
    IF ls = <<>> THEN <<>>
    ELSE IF ls[Len(ls)] = 0 THEN Strip(SubSeq(ls, 1, Len(ls) - 1))
    ELSE ls

RECURSIVE MagBytes(_)
\* the little-endian bytes of a magnitude
MagBytes(mag) ==
    IF mag = <<>> THEN <<>>
    ELSE <<Head(mag) % 256, Head(mag) \div 256>> \o MagBytes(Tail(mag))

\* a magnitude as exactly w little-endian bytes
PadTo(bs, w) == [i \in 1..w |-> IF i <= Len(bs) THEN bs[i] ELSE 0]

Invert(bs) == [i \in 1..Len(bs) |-> 255 - bs[i]]

RECURSIVE AddOne(_)
\* add one to a little-endian byte string, dropping the carry out of the top
AddOne(bs) ==
    IF bs = <<>> THEN <<>>
    ELSE IF Head(bs) = 255 THEN <<0>> \o AddOne(Tail(bs))
    ELSE <<Head(bs) + 1>> \o Tail(bs)

\* a small non-negative integer as a value
Pos(n) == [neg |-> FALSE, mag |-> Strip(<<n % 65536, n \div 65536>>)]

\* the negation of a small positive integer as a value
Neg(n) == [neg |-> TRUE, mag |-> Strip(<<n % 65536, n \div 65536>>)]

\* n * 256^sh as a value (n < 256)
Shl(n, sh) ==
    [neg |-> FALSE,
     mag |-> Strip([i \in 1..((sh \div 2) + 1) |->
                      IF i <= sh \div 2 THEN 0
                      ELSE IF sh % 2 = 0 THEN n ELSE n * 256])]

\* two's complement memory image, least significant byte first
to_le_bytes(v, w) ==
    LET m == PadTo(MagBytes(v.mag), w)
    IN  IF v.neg THEN AddOne(Invert(m)) ELSE m

\* to_be_bytes without the byte swap
to_be_bytes_unswapped(v, w) == to_le_bytes(v, w)

\* two's complement memory image, most significant byte first
to_be_bytes(v, w) == Reverse(to_le_bytes(v, w))

from_le_bytes(arr, signed) ==
    LET neg == signed /\ arr[Len(arr)] >= 128
        m   == IF neg THEN AddOne(Invert(arr)) ELSE arr
    IN  [neg |-> neg, mag |-> Strip(Limbs(m))]

from_be_bytes(arr, signed) == from_le_bytes(Reverse(arr), signed)


\* ------------------------------------------------------------------------
\* Types (syn::Data of a derive input, and the primitive / array types)
\* ------------------------------------------------------------------------
\* kind: "prim" | "array" | "struct" | "enum" | "union"
\* n: byte width of a primitive, length of an array
\* style: syn::Fields variant of a struct: "Named" | "Unnamed" | "Unit"
\* fields: sequence of [ty, attrs]; attrs is the string of #[endian = "..."],
\*         "" when the field carries no attribute
Prim(signed, w) ==
    [kind |-> "prim", signed |-> signed, n |-> w, style |-> "-", fields |-> <<>>]

Arr(len) ==
    [kind |-> "array", signed |-> FALSE, n |-> len, style |-> "-", fields |-> <<>>]

Data(kind, style, fields) ==
    [kind |-> kind, signed |-> FALSE, n |-> 0, style |-> style, fields |-> fields]

Struct(fields) == Data("struct", "Named", fields)

F(ty, attrs) == [ty |-> ty, attrs |-> attrs]

U8 == Prim(FALSE, 1)
I8 == Prim(TRUE, 1)
U16 == Prim(FALSE, 2)
I16 == Prim(TRUE, 2)
U32 == Prim(FALSE, 4)
I32 == Prim(TRUE, 4)
U64 == Prim(FALSE, 8)
I64 == Prim(TRUE, 8)
U128 == Prim(FALSE, 16)
I128 == Prim(TRUE, 16)

Primitives == {U8, I8, U16, I16, U32, I32, U64, I64, U128, I128}

Arrays == {Arr(len) : len \in 1..ArrayMax}

\* the structs of the crate's tests and documentation
TestA == Struct(<<>>)
TestB == Struct(<<F(U16, "")>>)
TestC == Struct(<<F(U16, ""), F(U16, "")>>)
A2 == Struct(<<F(U16, ""), F(I16, "")>>)
A4 == Struct(<<F(U32, ""), F(I32, "")>>)
A8 == Struct(<<F(U64, ""), F(I64, "")>>)
A16 == Struct(<<F(U128, ""), F(I128, "")>>)
Request == Struct(<<F(U16, "le"), F(I64, "little"), F(I128, "big")>>)
ExampleAll == Struct(<<F(U16, "be"), F(Arr(32), "")>>)

\* further structs: field sizes [2,2,4], three nesting levels, single bytes
S224 == Struct(<<F(U16, "le"), F(I16, "be"), F(U32, "big")>>)
Inner == Struct(<<F(U8, ""), F(U16, "be")>>)
Mid == Struct(<<F(Inner, ""), F(Arr(3), "")>>)
Outer == Struct(<<F(Mid, ""), F(U32, "little")>>)
WrapLE == Struct(<<F(TestB, "le"), F(I8, "big")>>)
Pair == Struct(<<F(U16, "le"), F(U16, "be")>>)
Envelope == Struct(<<F(U8, "big"), F(Pair, "")>>)
ByteU == Struct(<<F(U8, "")>>)
ByteI == Struct(<<F(I8, "")>>)
OverMixed == Struct(<<F(U16, "mixed")>>)
OverNative == Struct(<<F(U8, ""), F(U16, "native")>>)
Tuple == Data("struct", "Unnamed", <<F(U16, ""), F(U16, "")>>)
Unit == Data("struct", "Unit", <<>>)
AnEnum == Data("enum", "-", <<>>)
AUnion == Data("union", "-", <<>>)

Structs ==
    {TestA, TestB, TestC, A2, A4, A8, A16, Request, ExampleAll, S224, Inner, Mid,
     Outer, WrapLE, Pair, Envelope, ByteU, ByteI, OverMixed, OverNative, Tuple,
     Unit}

Catalog == Primitives \cup Arrays \cup Structs \cup {AnEnum, AUnion}

\* ------------------------------------------------------------------------
\* Values
\* ------------------------------------------------------------------------
UMax(w) == [neg |-> FALSE,
            mag |-> IF w = 1 THEN <<255>> ELSE [i \in 1..(w \div 2) |-> 65535]]

SMin(w) == [neg |-> TRUE,
            mag |-> IF w = 1 THEN <<128>>
                    ELSE [i \in 1..(w \div 2) |-> IF i = w \div 2 THEN 32768 ELSE 0]]

\* 0xFFFF_FFFF_0000_0000, the timestamp of the crate documentation's Request
Timestamp == [neg |-> FALSE, mag |-> <<0, 0, 65535, 65535>>]

PrimSamples(ty) ==
    IF ty.signed
    THEN {Shl(47, ty.n - 1), Pos(74), Neg(2)}
         \cup (IF ty.n <= 2 THEN {SMin(ty.n)} ELSE {})
         \cup (IF ty.n = 16 THEN {Timestamp} ELSE {})
    ELSE {Pos(47), UMax(ty.n)}
         \cup (IF ty.n = 1 THEN {Pos(0)} ELSE {Pos(68)})

ArraySamples(ty) ==
    {[i \in 1..ty.n |-> i], [i \in 1..ty.n |-> 256 - i]}

RECURSIVE Prod(_)
Prod(sets) ==
    IF sets = <<>> THEN {<<>>}
    ELSE {<<h>> \o t : h \in Head(sets), t \in Prod(Tail(sets))}

RECURSIVE Samples(_)
\* the values of a type the model draws from; a struct value is the sequence
\* of its field values
Samples(ty) ==
    IF ty.kind = "prim" THEN PrimSamples(ty)
    ELSE IF ty.kind = "array" THEN ArraySamples(ty)
    ELSE Prod([i \in 1..Len(ty.fields) |-> Samples(ty.fields[i].ty)])

\* ------------------------------------------------------------------------
\* PackedSize (EndianSize in the derive crate)
\* ------------------------------------------------------------------------
RECURSIVE PACKED_LEN(_)

\* bytes_size whose sum leaves out the last field
bytes_size_drop_last(data) ==
    IF data.style = "Unit" THEN 0
    ELSE 0 + SumSeq([i \in 1..(Len(data.fields) - 1) |-> PACKED_LEN(data.fields[i].ty)])

\* bytes_size: the expression 0 + <T1>::BYTES_LEN + <T2>::BYTES_LEN + ...
bytes_size(data) ==
    IF data.style = "Unit" THEN 0
    ELSE 0 + SumSeq([i \in 1..Len(data.fields) |-> PACKED_LEN(data.fields[i].ty)])

PACKED_LEN(ty) ==
    IF ty.kind \in {"prim", "array"} THEN ty.n ELSE bytes_size(ty)

RECURSIVE derive_endian_size(_)

\* derive_endian_size whose Data::Enum | Data::Union arm yields quote!(0) like
\* the Fields::Unit arm instead of unimplemented!()
derive_endian_size_enum_as_unit(ty) ==
    IF ty.kind = "prim" THEN "ok"
    ELSE IF ty.kind = "array"
         THEN IF ty.n \in 1..ArrayMax THEN "ok" ELSE "compile_error"
    ELSE IF ty.kind \in {"enum", "union"} THEN "ok"
    ELSE IF \A i \in 1..Len(ty.fields) : derive_endian_size(ty.fields[i].ty) = "ok"
         THEN "ok" ELSE "compile_error"
\* the outcome of #[derive(PackedSize)], or of looking up the impl of a
\* primitive or array: "ok", "unimplemented" (the macro panics) or
\* "compile_error" (the expansion does not compile)
derive_endian_size(ty) ==
    IF ty.kind = "prim" THEN "ok"
    ELSE IF ty.kind = "array"
         THEN IF ty.n \in 1..ArrayMax THEN "ok" ELSE "compile_error"
    ELSE IF ty.kind \in {"enum", "union"} THEN "unimplemented"
    ELSE IF \A i \in 1..Len(ty.fields) : derive_endian_size(ty.fields[i].ty) = "ok"
         THEN "ok" ELSE "compile_error"

\* ------------------------------------------------------------------------
\* The derive generators
\* ------------------------------------------------------------------------
\* enum Endian; the proc-macro entry points pass Little, Big or Mixed
Endians == {"Little", "Big", "Mixed"}

SerDes == {"Serialize", "Deserialize"}

Generators == Endians \X SerDes

\* attr::endian_from_attribute: the field's #[endian = "..."] as Option<Endian>
endian_from_attribute(attrs) ==
    IF attrs \in {"le", "little"} THEN "Little"
    ELSE IF attrs \in {"be", "big"} THEN "Big"
    ELSE IF attrs = "mixed" THEN "Mixed"
    ELSE IF attrs = "native" THEN "Native"
    ELSE "None"

\* field_endian whose Little and Big arms honour the field's #[endian] too
field_endian_attr_everywhere(field, endian) ==
    LET filed_endian == endian_from_attribute(field.attrs)
    IN  IF endian \in {"Little", "Big"}
        THEN IF filed_endian \in {"Little", "Big"} THEN filed_endian ELSE endian
        ELSE IF endian = "Mixed"
             THEN IF filed_endian = "Little" THEN "Little"
                  ELSE IF filed_endian = "Big" THEN "Big"
                  ELSE IF filed_endian \in {"Mixed", "Native"} THEN "unimplemented"
                  ELSE "Mixed"
        ELSE "unimplemented"

\* field_endian whose None arm imposes the little-endian trait on the field
\* instead of calling the field's own mixed-endian codec
field_endian_none_as_little(field, endian) ==
    IF endian = "Little" THEN "Little"
    ELSE IF endian = "Big" THEN "Big"
    ELSE IF endian = "Mixed"
         THEN LET filed_endian == endian_from_attribute(field.attrs)
              IN  IF filed_endian = "Little" THEN "Little"
                  ELSE IF filed_endian = "Big" THEN "Big"
                  ELSE IF filed_endian \in {"Mixed", "Native"} THEN "unimplemented"
                  ELSE "Little"
    ELSE "unimplemented"

\* field_endian whose Some(Endian::Big) arm calls the little-endian trait
field_endian_big_as_little(field, endian) ==
    IF endian = "Little" THEN "Little"
    ELSE IF endian = "Big" THEN "Big"
    ELSE IF endian = "Mixed"
         THEN LET filed_endian == endian_from_attribute(field.attrs)
              IN  IF filed_endian = "Little" THEN "Little"
                  ELSE IF filed_endian = "Big" THEN "Little"
                  ELSE IF filed_endian \in {"Mixed", "Native"} THEN "unimplemented"
                  ELSE "Mixed"
    ELSE "unimplemented"

\* field_endian whose Some(Endian::Mixed) | Some(Endian::Native) arm falls back
\* to the little-endian trait instead of unimplemented!()
field_endian_default_little(field, endian) ==
    IF endian = "Little" THEN "Little"
    ELSE IF endian = "Big" THEN "Big"
    ELSE IF endian = "Mixed"
         THEN LET filed_endian == endian_from_attribute(field.attrs)
              IN  IF filed_endian = "Little" THEN "Little"
                  ELSE IF filed_endian = "Big" THEN "Big"
                  ELSE IF filed_endian \in {"Mixed", "Native"} THEN "Little"
                  ELSE "Mixed"
    ELSE "unimplemented"

\* the match of serde_fields on (endian, field attribute): the order of the
\* trait the generated statement calls on the field, or "unimplemented"
field_endian(field, endian) ==
    IF endian = "Little" THEN "Little"
    ELSE IF endian = "Big" THEN "Big"
    ELSE IF endian = "Mixed"
         THEN LET filed_endian == endian_from_attribute(field.attrs)
              IN  IF filed_endian = "Little" THEN "Little"
                  ELSE IF filed_endian = "Big" THEN "Big"
                  ELSE IF filed_endian \in {"Mixed", "Native"} THEN "unimplemented"
                  ELSE "Mixed"
    ELSE "unimplemented"

\* primitive_impl with the Mixed codecs written out for every primitive
primitive_impl_all_mixed(ty, endian, serde) ==
    IF endian \in {"Little", "Big", "Mixed"} THEN "ok" ELSE "compile_error"

\* impl_codec_for_primitives! gives every primitive the LE and BE codecs;
\* EncodeME / DecodeME are written out for u8 alone
primitive_impl(ty, endian, serde) ==
    IF endian \in {"Little", "Big"} THEN "ok"
    ELSE IF endian = "Mixed" /\ ty.n = 1 /\ ~ty.signed THEN "ok"
    ELSE "compile_error"

\* impl_codec_for_array! gives [u8; 1] .. [u8; 32] all six codecs
array_impl(ty, endian, serde) ==
    IF ty.n \in 1..ArrayMax /\ endian \in Endians THEN "ok" ELSE "compile_error"

RECURSIVE trait_impl(_, _, _)

\* serde_fields at expansion time: the macro panics on the first field whose
\* match arm is unimplemented!(); otherwise the expansion compiles when every
\* field's type implements the size trait and the trait the statement calls
serde_fields(fields, endian, serde) ==
    IF \E i \in 1..Len(fields) : field_endian(fields[i], endian) = "unimplemented"
    THEN "unimplemented"
    ELSE IF \A i \in 1..Len(fields) :
               /\ derive_endian_size(fields[i].ty) = "ok"
               /\ trait_impl(fields[i].ty, field_endian(fields[i], endian), serde) = "ok"
         THEN "ok" ELSE "compile_error"

\* Fields::Unit expands to the body `0`, which does not type-check; the fields
\* of Fields::Unnamed have no ident, so a statement for one does not parse
serde_data_expands(data, endian, serde) ==
    IF data.kind \in {"enum", "union"} THEN "unimplemented"
    ELSE IF data.style = "Unit" THEN "compile_error"
    ELSE IF data.style = "Unnamed" /\ Len(data.fields) > 0
         THEN IF serde_fields(data.fields, endian, serde) = "unimplemented"
              THEN "unimplemented" ELSE "compile_error"
    ELSE serde_fields(data.fields, endian, serde)

\* the outcome of one of the six derives on a type declaration
derive_endian_impl(input, endian, serde) ==
    IF endian = "Native" THEN "unimplemented"
    ELSE serde_data_expands(input, endian, serde)

\* whether a type implements the codec trait of (endian, serde)
trait_impl(ty, endian, serde) ==
    IF ty.kind = "prim" THEN primitive_impl(ty, endian, serde)
    ELSE IF ty.kind = "array" THEN array_impl(ty, endian, serde)
    ELSE derive_endian_impl(ty, endian, serde)

\* ------------------------------------------------------------------------
\* The codecs at run time
\* ------------------------------------------------------------------------
\* copy_from_slice that stops one byte early and leaves the last byte of dst
copy_from_slice_short(dst, src) ==
    IF Len(dst) # Len(src) THEN [ok |-> FALSE, bytes |-> dst]
    ELSE [ok |-> TRUE,
          bytes |-> [i \in 1..Len(src) |-> IF i = Len(src) THEN dst[i] ELSE src[i]]]

\* <[u8]>::copy_from_slice panics unless both slices have the same length
copy_from_slice(dst, src) ==
    IF Len(dst) # Len(src) THEN [ok |-> FALSE, bytes |-> dst]
    ELSE [ok |-> TRUE, bytes |-> src]

\* the conversion an encode of a primitive calls: to_le_bytes in
\* encode_as_le_bytes, to_be_bytes in encode_as_be_bytes and in the
\* encode_as_me_bytes of u8
encode_conversion(endian) == IF endian = "Little" THEN "Little" ELSE "Big"

\* the conversion a decode of a primitive calls: from_le_bytes in
\* decode_from_le_bytes, from_be_bytes in decode_from_be_bytes, from_le_bytes
\* in the decode_from_me_bytes of u8
decode_conversion(endian) == IF endian = "Big" THEN "Big" ELSE "Little"

\* the conversion the codec of a type applies to the value: "-" for arrays and
\* composites, which convert nothing themselves
conversion(ty, serde, endian) ==
    IF ty.kind # "prim" THEN "-"
    ELSE IF serde = "Serialize" THEN encode_conversion(endian)
    ELSE decode_conversion(endian)

\* primitive_encode with the two byte orders exchanged
primitive_encode_swapped(ty, self, bytes, endian) ==
    IF endian = "Little" THEN copy_from_slice(bytes, to_be_bytes(self, ty.n))
    ELSE copy_from_slice(bytes, to_le_bytes(self, ty.n))

\* encode_as_{le,be}_bytes of impl_codec_for_primitives!, encode_as_me_bytes of u8
primitive_encode(ty, self, bytes, endian) ==
    IF encode_conversion(endian) = "Little"
    THEN copy_from_slice(bytes, to_le_bytes(self, ty.n))
    ELSE copy_from_slice(bytes, to_be_bytes(self, ty.n))

\* encode_as_{le,be,me}_bytes of impl_codec_for_array!
array_encode(ty, self, bytes, endian) == copy_from_slice(bytes, self)

RECURSIVE encode(_, _, _, _)

RECURSIVE serialize_fields(_, _, _, _, _, _, _)

\* serialize_fields whose offset restarts at the size of the field instead of
\* advancing by it
serialize_fields_restart(fields, self, bytes, endian, k, beg_offset, log) ==
    IF k > Len(fields) THEN [ok |-> TRUE, bytes |-> bytes, log |-> log]
    ELSE LET struct_size == PACKED_LEN(fields[k].ty)
             end_offset  == beg_offset + struct_size
         IN  IF end_offset > Len(bytes)
             THEN [ok |-> FALSE, bytes |-> bytes, log |-> log]
             ELSE LET order == field_endian(fields[k], endian)
                      r == encode(fields[k].ty, self[k],
                                  SubSeq(bytes, beg_offset + 1, end_offset), order)
                      nb == SubSeq(bytes, 1, beg_offset) \o r.bytes
                               \o SubSeq(bytes, end_offset + 1, Len(bytes))
                      nl == Append(log, [beg |-> beg_offset, end |-> end_offset,
                                         order |-> order,
                                         conv |-> conversion(fields[k].ty,
                                                             "Serialize", order)])
                  IN  IF ~r.ok THEN [ok |-> FALSE, bytes |-> nb, log |-> nl]
                      ELSE serialize_fields(fields, self, nb, endian, k + 1,
                                            struct_size, nl)

\* the statements serde_fields generates for SerDe::Serialize, from field k on;
\* beg_offset is the value of the offset expression, log the slices handed out
serialize_fields(fields, self, bytes, endian, k, beg_offset, log) ==
    IF k > Len(fields) THEN [ok |-> TRUE, bytes |-> bytes, log |-> log]
    ELSE LET struct_size == PACKED_LEN(fields[k].ty)
             end_offset  == beg_offset + struct_size
         IN  IF end_offset > Len(bytes)
             THEN [ok |-> FALSE, bytes |-> bytes, log |-> log]
             ELSE LET order == field_endian(fields[k], endian)
                      r == encode(fields[k].ty, self[k],
                                  SubSeq(bytes, beg_offset + 1, end_offset), order)
                      nb == SubSeq(bytes, 1, beg_offset) \o r.bytes
                               \o SubSeq(bytes, end_offset + 1, Len(bytes))
                      nl == Append(log, [beg |-> beg_offset, end |-> end_offset,
                                         order |-> order,
                                         conv |-> conversion(fields[k].ty,
                                                             "Serialize", order)])
                  IN  IF ~r.ok THEN [ok |-> FALSE, bytes |-> nb, log |-> nl]
                      ELSE serialize_fields(fields, self, nb, endian, k + 1,
                                            end_offset, nl)

\* Encode{LE,BE,ME}::encode_as_*_bytes(&self, bytes) on a value of type ty:
\* ok is FALSE when the call panics, bytes is the buffer afterwards, log the
\* byte ranges the call handed to the fields of ty
encode(ty, self, bytes, endian) ==
    IF ty.kind = "prim"
    THEN LET r == primitive_encode(ty, self, bytes, endian)
         IN  [ok |-> r.ok, bytes |-> r.bytes, log |-> <<>>]
    ELSE IF ty.kind = "array"
    THEN LET r == array_encode(ty, self, bytes, endian)
         IN  [ok |-> r.ok, bytes |-> r.bytes, log |-> <<>>]
    ELSE serialize_fields(ty.fields, self, bytes, endian, 1, 0, <<>>)

\* decode_from_{le,be}_bytes of impl_codec_for_primitives!, decode_from_me_bytes of u8
primitive_decode(ty, bytes, endian) ==
    LET arr == copy_from_slice(Zeros(ty.n), bytes)
    IN  IF ~arr.ok THEN [ok |-> FALSE, val |-> <<>>]
        ELSE IF decode_conversion(endian) = "Big"
             THEN [ok |-> TRUE, val |-> <<from_be_bytes(arr.bytes, ty.signed)>>]
             ELSE [ok |-> TRUE, val |-> <<from_le_bytes(arr.bytes, ty.signed)>>]

\* decode_from_{le,be,me}_bytes of impl_codec_for_array!
array_decode(ty, bytes, endian) ==
    LET arr == copy_from_slice(Zeros(PACKED_LEN(ty)), bytes)
    IN  IF ~arr.ok THEN [ok |-> FALSE, val |-> <<>>]
        ELSE [ok |-> TRUE, val |-> <<arr.bytes>>]

RECURSIVE decode(_, _, _)

RECURSIVE deserialize_fields(_, _, _, _, _, _, _)
\* the field initialisers serde_fields generates for SerDe::Deserialize, from
\* field k on; acc is the sequence of the fields decoded so far
deserialize_fields(fields, bytes, endian, k, beg_offset, acc, log) ==
    IF k > Len(fields) THEN [ok |-> TRUE, val |-> <<acc>>, log |-> log]
    ELSE LET struct_size == PACKED_LEN(fields[k].ty)
             end_offset  == beg_offset + struct_size
         IN  IF end_offset > Len(bytes)
             THEN [ok |-> FALSE, val |-> <<>>, log |-> log]
             ELSE LET order == field_endian(fields[k], endian)
                      r == decode(fields[k].ty,
                                  SubSeq(bytes, beg_offset + 1, end_offset), order)
                      nl == Append(log, [beg |-> beg_offset, end |-> end_offset,
                                         order |-> order,
                                         conv |-> conversion(fields[k].ty,
                                                             "Deserialize", order)])
                  IN  IF ~r.ok THEN [ok |-> FALSE, val |-> <<>>, log |-> nl]
                      ELSE deserialize_fields(fields, bytes, endian, k + 1,
                                              end_offset, Append(acc, r.val[1]), nl)

\* Decode{LE,BE,ME}::decode_from_*_bytes(bytes) for type ty: ok is FALSE when
\* the call panics, val is <<value>> when it returns
decode(ty, bytes, endian) ==
    IF ty.kind = "prim"
    THEN LET r == primitive_decode(ty, bytes, endian)
         IN  [ok |-> r.ok, val |-> r.val, log |-> <<>>]
    ELSE IF ty.kind = "array"
    THEN LET r == array_decode(ty, bytes, endian)
         IN  [ok |-> r.ok, val |-> r.val, log |-> <<>>]
    ELSE deserialize_fields(ty.fields, bytes, endian, 1, 0, <<>>, <<>>)

\* ------------------------------------------------------------------------
\* State
\* ------------------------------------------------------------------------
VARIABLES
    schema,     \* the type declaration under the derives (or a primitive / array)
    size,       \* outcome of the PackedSize derive: [status, len]
    impls,      \* outcome of each of the six codec derives, "none" before it ran
    self,       \* <<>> or <<the value the caller made>>
    bytes,      \* the caller's buffer
    origin,     \* "none": no buffer; "raw": a fresh buffer; else the order of
                \* the last encode that returned after writing the buffer
    lastop,     \* the last run-time call: [kind, endian, ok, pre, log, conv]
    decoded     \* <<>> or <<the value the last decode returned>>

vars == <<schema, size, impls, self, bytes, origin, lastop, decoded>>

NoOp == [kind |-> "none", endian |-> "-", ok |-> TRUE, pre |-> <<>>, log |-> <<>>,
         conv |-> "-"]

Init ==
    /\ schema \in Catalog
    /\ size = [status |-> "none", len |-> 0]
    /\ impls = [g \in Generators |-> "none"]
    /\ self = <<>>
    /\ bytes = <<>>
    /\ origin = "none"
    /\ lastop = NoOp
    /\ decoded = <<>>

\* #[derive(PackedSize)] (or the impl of a primitive / array) is resolved
DeriveSize ==
    /\ size.status = "none"
    /\ size' = LET st == derive_endian_size(schema)
               IN  [status |-> st, len |-> IF st = "ok" THEN PACKED_LEN(schema) ELSE 0]
    /\ UNCHANGED <<schema, impls, self, bytes, origin, lastop, decoded>>

\* one of the six codec derives (or impls) is resolved
Derive(endian, serde) ==
    /\ size.status # "none"
    /\ impls[<<endian, serde>>] = "none"
    /\ impls' = [impls EXCEPT ![<<endian, serde>>] = trait_impl(schema, endian, serde)]
    /\ UNCHANGED <<schema, size, self, bytes, origin, lastop, decoded>>

HasAttrs(ty) == \E k \in 1..Len(ty.fields) : ty.fields[k].attrs # ""

\* the codec of (endian, serde) is part of a program that compiles: its derive
\* succeeded, and an #[endian] attribute on a field is known to the compiler,
\* which only the Mixed derives declare (attributes(endian))
Usable(endian, serde) ==
    /\ impls[<<endian, serde>>] = "ok"
    /\ HasAttrs(schema) => \E s \in SerDes : impls[<<"Mixed", s>>] = "ok"

\* the program is built; the caller makes a value of the type
Instantiate ==
    /\ size.status = "ok"
    /\ \A g \in Generators : impls[g] # "none"
    /\ self = <<>>
    /\ \E v \in Samples(schema) : self' = <<v>>
    /\ UNCHANGED <<schema, size, impls, bytes, origin, lastop, decoded>>

BufferLens == {n \in (size.len - MaxSlack)..(size.len + MaxSlack) : n >= 0}

FillBytes == {(i * 85) % 256 : i \in 0..(NumFill - 1)}

\* the caller makes a buffer of one of the lengths, filled with one of the bytes
NewBuffer ==
    /\ self # <<>>
    /\ lastop.ok
    /\ \E len \in BufferLens, fill \in FillBytes : bytes' = Fill(len, fill)
    /\ origin' = "raw"
    /\ lastop' = [kind |-> "alloc", endian |-> "-", ok |-> TRUE, pre |-> <<>>,
                  log |-> <<>>, conv |-> "-"]
    /\ decoded' = <<>>
    /\ UNCHANGED <<schema, size, impls, self>>

\* self.encode_as_{le,be,me}_bytes(&mut bytes)
Encode(endian) ==
    /\ origin # "none"
    /\ lastop.ok
    /\ Usable(endian, "Serialize")
    /\ LET r == encode(schema, self[1], bytes, endian)
       IN  /\ bytes' = r.bytes
           /\ origin' = IF r.ok THEN endian ELSE origin
           /\ lastop' = [kind |-> "encode", endian |-> endian, ok |-> r.ok,
                         pre |-> bytes, log |-> r.log,
                         conv |-> conversion(schema, "Serialize", endian)]
    /\ decoded' = <<>>
    /\ UNCHANGED <<schema, size, impls, self>>

\* T::decode_from_{le,be,me}_bytes(&bytes)
Decode(endian) ==
    /\ origin # "none"
    /\ lastop.ok
    /\ Usable(endian, "Deserialize")
    /\ LET r == decode(schema, bytes, endian)
       IN  /\ decoded' = r.val
           /\ lastop' = [kind |-> "decode", endian |-> endian, ok |-> r.ok,
                         pre |-> bytes, log |-> r.log,
                         conv |-> conversion(schema, "Deserialize", endian)]
    /\ UNCHANGED <<schema, size, impls, self, bytes, origin>>

Next ==
    \/ DeriveSize
    \/ \E endian \in Endians, serde \in SerDes : Derive(endian, serde)
    \/ Instantiate
    \/ NewBuffer
    \/ \E endian \in Endians : Encode(endian)
    \/ \E endian \in Endians : Decode(endian)

Spec == Init /\ [][Next]_vars

TypeOK ==
    /\ schema \in Catalog
    /\ size.status \in {"none", "ok", "unimplemented", "compile_error"}
    /\ \A g \in Generators : impls[g] \in {"none", "ok", "unimplemented", "compile_error"}
    /\ Len(self) <= 1
    /\ \A i \in 1..Len(bytes) : bytes[i] \in 0..255
    /\ origin \in {"none", "raw"} \cup Endians
    /\ lastop.kind \in {"none", "alloc", "encode", "decode"}
    /\ Len(decoded) <= 1

\* ------------------------------------------------------------------------
\* Properties
\* ------------------------------------------------------------------------
Ran(kind) == lastop.kind = kind /\ lastop.ok

RECURSIVE SpecPackedSize(_)
\* packed_size of the specification: the width of a primitive, the length of
\* an array, the sum over the fields of a composite
SpecPackedSize(ty) ==
    IF ty.kind \in {"prim", "array"} THEN ty.n
    ELSE SumSeq([k \in 1..Len(ty.fields) |-> SpecPackedSize(ty.fields[k].ty)])

\* the offset the specification gives field k: the sizes of the fields before it
SpecOffset(ty, k) ==
    SumSeq([j \in 1..(k - 1) |-> SpecPackedSize(ty.fields[j].ty)])

\* the bytes of the buffer in the range of field k
FieldBytes(ty, k) ==
    SubSeq(bytes, SpecOffset(ty, k) + 1,
           SpecOffset(ty, k) + SpecPackedSize(ty.fields[k].ty))

\* C1: a value encoded in a mode into a buffer of exactly PACKED_LEN bytes and
\* decoded from that buffer in the same mode comes back equal, for LE, BE and
\* Mixed, for primitives, arrays and (nested) composites
RoundTrip ==
    (lastop.kind = "decode" /\ origin \in Endians /\ lastop.endian = origin
        /\ Len(bytes) = size.len)
    => (lastop.ok /\ decoded = self)

RoundTripWitness ==
    /\ Ran("decode")
    /\ schema = Outer
    /\ origin = "Mixed"
    /\ lastop.endian = "Mixed"
    /\ Len(bytes) = size.len
    /\ self = << << << <<Pos(47), UMax(2)>>, <<1, 2, 3>> >>, Pos(68)>> >>
    /\ decoded = self

\* C2: an encode into a buffer whose length differs from PACKED_LEN, shorter or
\* longer, never returns normally, for every schema and mode
EncodeSizeMismatchPanics ==
    (lastop.kind = "encode" /\ Len(lastop.pre) # size.len) => ~lastop.ok

\* C3: a decode from a buffer whose length differs from PACKED_LEN, shorter or
\* longer, never returns a record, for every schema and mode
DecodeSizeMismatchPanics ==
    (lastop.kind = "decode" /\ Len(lastop.pre) # size.len)
    => (~lastop.ok /\ decoded = <<>>)

\* C4: the packed size of a composite is the sum of the packed sizes of its
\* fields, recursively; a primitive's is its width, an array's its length
SizeAdditivity ==
    size.status = "ok" =>
        /\ schema.kind = "prim" => (size.len = schema.n /\ schema.n \in {1, 2, 4, 8, 16})
        /\ schema.kind = "array" => (size.len = schema.n /\ schema.n \in 1..32)
        /\ schema.kind = "struct" =>
              size.len = SumSeq([k \in 1..Len(schema.fields) |->
                                    SpecPackedSize(schema.fields[k].ty)])

\* three nesting levels: Outer { Mid { Inner { u8, u16 }, [u8; 3] }, u32 }
SizeAdditivityWitness ==
    /\ schema = Outer
    /\ size.status = "ok"
    /\ size.len = ((1 + 2) + 3) + 4

\* the byte ranges the specification assigns to the fields of a composite
SpecRanges(ty) ==
    [k \in 1..Len(ty.fields) |->
        [beg |-> SpecOffset(ty, k),
         end |-> SpecOffset(ty, k) + SpecPackedSize(ty.fields[k].ty)]]

LogRanges == [k \in 1..Len(lastop.log) |->
                 [beg |-> lastop.log[k].beg, end |-> lastop.log[k].end]]

\* C5: an encode or decode of a composite that returns, in any mode, handed
\* field k the range that starts at the sum of the sizes of the fields before
\* it; the ranges are disjoint, gap-free, in declaration order and end at
\* PACKED_LEN; for field sizes [2,2,4] they are [0,2), [2,4), [4,8)
OffsetDeterminism ==
    (lastop.kind \in {"encode", "decode"} /\ lastop.ok /\ schema.kind = "struct")
    => /\ LogRanges = SpecRanges(schema)
       /\ \A k \in 1..Len(lastop.log) :
             /\ lastop.log[k].beg = (IF k = 1 THEN 0 ELSE lastop.log[k - 1].end)
             /\ lastop.log[k].beg <= lastop.log[k].end
       /\ \A j, k \in 1..Len(lastop.log) :
             j < k => lastop.log[j].end <= lastop.log[k].beg
       /\ (IF lastop.log = <<>> THEN 0 ELSE lastop.log[Len(lastop.log)].end) = size.len
       /\ schema = S224 =>
             LogRanges = <<[beg |-> 0, end |-> 2], [beg |-> 2, end |-> 4],
                           [beg |-> 4, end |-> 8]>>

OffsetDeterminismWitness ==
    /\ Ran("encode")
    /\ schema = S224
    /\ lastop.endian = "Mixed"
    /\ Len(lastop.pre) = 8
    /\ LogRanges = <<[beg |-> 0, end |-> 2], [beg |-> 2, end |-> 4],
                     [beg |-> 4, end |-> 8]>>

\* a value that fits one limb, as an integer
IsSmall(v) == Len(v.mag) <= 1

IntOf(v) == IF v.mag = <<>> THEN 0 ELSE IF v.neg THEN 0 - v.mag[1] ELSE v.mag[1]

\* the two's complement digits of a small integer, least significant first:
\* digit i is floor(v / 256^i) mod 256, and beyond the third the sign digit
LsbFirst(v, w) ==
    [i \in 1..w |->
        IF i = 1 THEN IntOf(v) % 256
        ELSE IF i = 2 THEN (IntOf(v) \div 256) % 256
        ELSE IF i = 3 THEN (IntOf(v) \div 65536) % 256
        ELSE IF IntOf(v) < 0 THEN 255 ELSE 0]

\* the unsigned / signed pairs of the tests
Pairs == {A2, A4, A8, A16}

\* C6: in LE mode every multi-byte primitive field lies least significant byte
\* first in its range, in BE mode most significant byte first, the fields
\* concatenated in declaration order without padding; {a: 0x2F, b: 0x2F00}
\* gives [47,0,0,47] in LE and [0,47,47,0] in BE, and likewise the 4-, 8- and
\* 16-byte pairs
LayoutLEBE ==
    (Ran("encode") /\ lastop.endian \in {"Little", "Big"} /\ schema.kind = "struct"
        /\ Len(lastop.pre) = size.len)
    => /\ \A k \in 1..Len(schema.fields) :
            (schema.fields[k].ty.kind = "prim" /\ IsSmall(self[1][k]))
            => FieldBytes(schema, k) =
                 (IF lastop.endian = "Little"
                  THEN LsbFirst(self[1][k], schema.fields[k].ty.n)
                  ELSE Reverse(LsbFirst(self[1][k], schema.fields[k].ty.n)))
       /\ (schema \in Pairs
             /\ self = << <<Pos(47), Shl(47, schema.fields[1].ty.n - 1)>> >>)
          => LET w == schema.fields[1].ty.n
             IN  bytes = (IF lastop.endian = "Little"
                          THEN [i \in 1..(2 * w) |-> IF i \in {1, 2 * w} THEN 47 ELSE 0]
                          ELSE [i \in 1..(2 * w) |-> IF i \in {w, w + 1} THEN 47 ELSE 0])
       /\ (schema = A2 /\ self = << <<Pos(47), Shl(47, 1)>> >>)
          => bytes = (IF lastop.endian = "Little" THEN <<47, 0, 0, 47>>
                      ELSE <<0, 47, 47, 0>>)

LayoutLEBEWitness ==
    /\ Ran("encode")
    /\ lastop.endian = "Big"
    /\ schema = A2
    /\ self = << <<Pos(47), Shl(47, 1)>> >>
    /\ bytes = <<0, 47, 47, 0>>

\* the encoding of value v of type ty in the given order
Encoding(ty, v, endian) == encode(ty, v, Zeros(SpecPackedSize(ty)), endian).bytes

AttrLittle == {"le", "little"}

AttrBig == {"be", "big"}

\* the value a Mixed call worked on: the one encoded, or the one decode returned
OpValue == IF lastop.kind = "encode" THEN self[1] ELSE decoded[1]

\* C7: in Mixed mode a field annotated le / little is encoded and decoded
\* little-endian and a field annotated be / big big-endian, each in its own
\* range, whatever the other fields' annotations; the Request of the crate
\* documentation fills 26 bytes: cmd LE in [0,2), value LE in [2,10),
\* timestamp BE in [10,26)
MixedOverride ==
    ((Ran("encode") \/ Ran("decode")) /\ lastop.endian = "Mixed"
        /\ schema.kind = "struct" /\ Len(lastop.pre) = size.len)
    => /\ \A k \in 1..Len(schema.fields) :
            /\ schema.fields[k].attrs \in AttrLittle
               => FieldBytes(schema, k) =
                    Encoding(schema.fields[k].ty, OpValue[k], "Little")
            /\ schema.fields[k].attrs \in AttrBig
               => FieldBytes(schema, k) =
                    Encoding(schema.fields[k].ty, OpValue[k], "Big")
       /\ (schema = Request /\ OpValue = <<Pos(68), Pos(74), Timestamp>>)
          => /\ Len(bytes) = 26
             /\ SubSeq(bytes, 1, 2) = <<68, 0>>
             /\ SubSeq(bytes, 3, 10) = <<74, 0, 0, 0, 0, 0, 0, 0>>
             /\ SubSeq(bytes, 11, 26) =
                   <<0, 0, 0, 0, 0, 0, 0, 0, 255, 255, 255, 255, 0, 0, 0, 0>>

MixedOverrideWitness ==
    /\ Ran("encode")
    /\ lastop.endian = "Mixed"
    /\ schema = Request
    /\ self = << <<Pos(68), Pos(74), Timestamp>> >>
    /\ bytes = <<68, 0, 74, 0, 0, 0, 0, 0, 0, 0,
                 0, 0, 0, 0, 0, 0, 0, 0, 255, 255, 255, 255, 0, 0, 0, 0>>

\* a type without a numeric byte order: a fixed byte array or a one-byte integer
OrderInvariant(ty) == ty.kind = "array" \/ (ty.kind = "prim" /\ ty.n = 1)

AllBuilt == \A g \in Generators : impls[g] # "none"

\* C8: for every array [u8; N] and every one-byte integer, unsigned or signed,
\* alone or as an unannotated field, the codecs of all three modes exist, an
\* encode in any of them writes the same verbatim copy and a decode in any of
\* them returns the same value
OrderInvariantTypes ==
    /\ (OrderInvariant(schema) \/
        (schema.kind = "struct" /\ schema.style = "Named" /\
         \A k \in 1..Len(schema.fields) :
            OrderInvariant(schema.fields[k].ty) /\ schema.fields[k].attrs = ""))
       => \A g \in Generators : impls[g] \in {"none", "ok"}
    /\ (OrderInvariant(schema) /\ Ran("encode") /\ Len(lastop.pre) = size.len)
       => bytes = (IF schema.kind = "array" THEN self[1] ELSE LsbFirst(self[1], 1))
    /\ (OrderInvariant(schema) /\ Ran("decode"))
       => \A e \in Endians : decoded = decode(schema, bytes, e).val

\* a field: a primitive wider than one byte that carries no #[endian]
WideUnannotated(field) ==
    field.ty.kind = "prim" /\ field.ty.n > 1 /\ field.attrs = ""

\* C9: a composite with an unannotated primitive field wider than one byte is
\* rejected when its Mixed codecs are built, so no Mixed encode or decode of it
\* ever runs
MissingOrderAnnotation ==
    (schema.kind = "struct"
        /\ \E k \in 1..Len(schema.fields) : WideUnannotated(schema.fields[k]))
    => /\ \A serde \in SerDes : impls[<<"Mixed", serde>>] \in {"none", "compile_error"}
       /\ ~(lastop.kind \in {"encode", "decode"} /\ lastop.endian = "Mixed")
       /\ origin # "Mixed"

\* the pair of the tests is built, its Mixed derives were turned down, and the
\* program runs its little-endian codec
MissingOrderAnnotationWitness ==
    /\ schema = A2
    /\ AllBuilt
    /\ impls[<<"Mixed", "Serialize">>] = "compile_error"
    /\ impls[<<"Mixed", "Deserialize">>] = "compile_error"
    /\ Ran("decode")
    /\ lastop.endian = "Little"

\* C10: a field whose #[endian] resolves to Mixed or Native makes the Mixed
\* encode and the Mixed decode generator fail, so that no codec of the type
\* ever runs, and no encode or decode ever hands a field to the order Native
InvalidOrderOverride ==
    /\ (schema.kind = "struct"
          /\ \E k \in 1..Len(schema.fields) :
                endian_from_attribute(schema.fields[k].attrs) \in {"Mixed", "Native"})
       => /\ \A serde \in SerDes : impls[<<"Mixed", serde>>] \in {"none", "unimplemented"}
          /\ lastop.kind \notin {"encode", "decode"}
    /\ \A k \in 1..Len(lastop.log) : lastop.log[k].order \in {"Little", "Big", "Mixed"}

InvalidOrderOverrideWitness ==
    /\ schema = OverNative
    /\ AllBuilt
    /\ impls[<<"Mixed", "Serialize">>] = "unimplemented"
    /\ impls[<<"Mixed", "Deserialize">>] = "unimplemented"

\* C11: the size derive and each of the six codec derives fail at expansion
\* for an enum or a union; no packed size, 0 or other, comes out, no value is
\* ever handed to a codec and no encode or decode runs
UnsupportedKind ==
    schema.kind \in {"enum", "union"}
    => /\ size.status \in {"none", "unimplemented"}
       /\ \A g \in Generators : impls[g] \in {"none", "unimplemented"}
       /\ self = <<>>
       /\ origin = "none"
       /\ lastop.kind = "none"

UnsupportedKindWitness ==
    /\ schema = AnEnum
    /\ size.status = "unimplemented"
    /\ \A g \in Generators : impls[g] = "unimplemented"

\* C12: a composite without fields, empty-braced or unit, has packed size 0,
\* its codecs exist in every mode, and an encode or decode on a zero-length
\* buffer returns: the encode writes nothing, the decode yields the empty record
EmptyRecord ==
    (schema.kind = "struct" /\ Len(schema.fields) = 0)
    => /\ size.status \in {"none", "ok"}
       /\ size.len = 0
       /\ \A g \in Generators : impls[g] \in {"none", "ok"}
       /\ (lastop.kind \in {"encode", "decode"} /\ Len(lastop.pre) = 0)
          => (lastop.ok /\ bytes = <<>>)
       /\ (lastop.kind = "decode" /\ Len(lastop.pre) = 0) => decoded = << <<>> >>

\* a field: a one-byte primitive that carries no #[endian]
ByteUnannotated(field) ==
    field.ty.kind = "prim" /\ field.ty.n = 1 /\ field.attrs = ""

\* C13: when a Mixed decode follows a Mixed encode, a one-byte primitive (alone
\* or as an unannotated field) is decoded with the same byte-order conversion
\* it was encoded with
SymmetricByteConvention ==
    [][(lastop.kind = "encode" /\ lastop.ok /\ lastop.endian = "Mixed"
          /\ lastop'.kind = "decode" /\ lastop'.ok /\ lastop'.endian = "Mixed")
       => /\ (schema.kind = "prim" /\ schema.n = 1) => lastop'.conv = lastop.conv
          /\ \A k \in 1..Len(schema.fields) :
                (ByteUnannotated(schema.fields[k])
                   /\ k <= Len(lastop.log) /\ k <= Len(lastop'.log))
                => lastop'.log[k].conv = lastop.log[k].conv]_vars

\* C14: in Mixed mode an unannotated field of composite type is handed to that
\* composite's own Mixed codec: the bytes of its range are the stand-alone
\* Mixed encoding of the nested value, whatever the outer fields' annotations
NestedMixedFallback ==
    ((Ran("encode") \/ Ran("decode")) /\ lastop.endian = "Mixed"
        /\ schema.kind = "struct" /\ Len(lastop.pre) = size.len)
    => \A k \in 1..Len(schema.fields) :
          (schema.fields[k].attrs = "" /\ schema.fields[k].ty.kind = "struct")
          => /\ lastop.log[k].order = "Mixed"
             /\ FieldBytes(schema, k) =
                   Encoding(schema.fields[k].ty, OpValue[k], "Mixed")

\* Envelope { u8 big, Pair { u16 le, u16 be } }: the nested pair keeps its own
\* two orders next to a big-endian sibling
NestedMixedFallbackWitness ==
    /\ Ran("encode")
    /\ lastop.endian = "Mixed"
    /\ schema = Envelope
    /\ self = << <<Pos(47), <<Pos(47), Pos(68)>> >> >>
    /\ bytes = <<47, 47, 0, 0, 68>>

\* C15: an encode into a buffer of exactly PACKED_LEN bytes writes every byte:
\* each field's range holds that field's encoding in the order it was
\* dispatched with, so the buffer afterwards is a function of the value and
\* the mode alone, whatever it held before (an earlier encoding in another
\* mode is fully replaced); bytes outside the fields' ranges are left as they were
ExactWrite ==
    (lastop.kind = "encode" /\ lastop.ok)
    => /\ Len(bytes) = Len(lastop.pre)
       /\ Len(lastop.pre) = size.len
          => bytes = Encoding(schema, self[1], lastop.endian)
       /\ schema.kind = "struct"
          => \A k \in 1..Len(schema.fields) :
                FieldBytes(schema, k) =
                   Encoding(schema.fields[k].ty, self[1][k], lastop.log[k].order)
       /\ \A i \in (size.len + 1)..Len(bytes) : bytes[i] = lastop.pre[i]

\* the sequence of the test derive_all_serialize: the buffer holds the
\* big-endian encoding and is encoded again little-endian
ExactWriteWitness ==
    /\ Ran("encode")
    /\ schema = ExampleAll
    /\ lastop.endian = "Little"
    /\ Len(lastop.pre) = 34
    /\ lastop.pre = Encoding(schema, self[1], "Big")
    /\ bytes = Encoding(schema, self[1], "Little")
    /\ bytes # lastop.pre

RECURSIVE StripAttrs(_)
\* the same type with every #[endian] removed, nested composites included
StripAttrs(ty) ==
    [ty EXCEPT !.fields =
        [k \in 1..Len(ty.fields) |->
            [ty |-> StripAttrs(ty.fields[k].ty), attrs |-> ""]]]

\* C16: in pure LE (BE) mode every field of a composite is dispatched LE (BE)
\* whatever its #[endian] says: an encode leaves the bytes, and a decode
\* returns the value, that the same composite without any #[endian] gives
OverrideIgnored ==
    ((Ran("encode") \/ Ran("decode")) /\ lastop.endian \in {"Little", "Big"}
        /\ schema.kind = "struct" /\ HasAttrs(schema))
    => /\ \A k \in 1..Len(lastop.log) : lastop.log[k].order = lastop.endian
       /\ Ran("encode")
          => bytes = encode(StripAttrs(schema), self[1], lastop.pre,
                            lastop.endian).bytes
       /\ Ran("decode")
          => decoded = decode(StripAttrs(schema), bytes, lastop.endian).val

\* the Request of the crate documentation (le, little, big) encoded big-endian
OverrideIgnoredWitness ==
    /\ Ran("encode")
    /\ lastop.endian = "Big"
    /\ schema = Request
    /\ self = << <<Pos(68), Pos(74), Timestamp>> >>
    /\ bytes = <<0, 68, 0, 0, 0, 0, 0, 0, 0, 74,
                 0, 0, 0, 0, 0, 0, 0, 0, 255, 255, 255, 255, 0, 0, 0, 0>>
    /\ bytes # Encoding(schema, self[1], "Mixed")
====
